---- MODULE Spec2Model ----
(***************************************************************************)
(* The reference server and Participant app of redis-puml-miniapp          *)
(* (GAMEPLAN-TECHNICAL-REFERENCE.md): the followup:create pipeline, the     *)
(* request:replay handler, the Participant's socket handlers and its       *)
(* speech queue, over one Redis connection and one Socket.IO server.       *)
(*                                                                         *)
(* Every handler runs on Node's single thread: a handler runs without      *)
(* interruption from one await to the next.  All Redis commands go through *)
(* the one client created at server start; the client writes commands in   *)
(* call order and Redis answers a connection's commands in order, so       *)
(* redisQ is a FIFO and the command at its head is the next to execute and *)
(* to resume its handler.  Calls to OpenAI complete in any order.          *)
(***************************************************************************)
EXTENDS Integers, Sequences, FiniteSets, TLC

(* ---- bounds of the model ---- *)
MaxSubs == 2          \* followup:create events in one run of Spec
MaxFlight == 2        \* followup handlers suspended at an await at once
MaxConn == 2          \* connections one client makes in one run
MaxLog == 101         \* entries of questions:stream in SpecReplay
MaxAdmitSubs == 12    \* followup:create events in one run of SpecAdmit
MaxTime == 90         \* the clock stops here in SpecAdmit
TickStep == 30        \* seconds one Tick advances the clock
MaxDedupSubs == 3     \* followup:create events in one run of SpecDedup
MaxLongTime == 450    \* the clock stops here in SpecDedup
LongStep == 150       \* seconds one TickLong advances the clock
MaxShapeSubs == 2     \* followup:create events in one run of SpecShape
MaxFrameSubs == 12    \* followup:create events in one run of SpecFrame
MaxCursorSubs == 2    \* submissions while the cursor is watched
MaxHealth == 3        \* requests of GET /health
MaxHealthSubs == 1    \* submissions while the health check is watched
MaxScopeSubs == 14    \* submissions of two sockets in one run of SpecScope
MaxFailSubs == 2      \* followup:create events in one run of SpecFail

(* ---- program constants ---- *)
MaxItems == 8         \* data.items.length > 8
MaxChars == 300       \* totalChars > 300
RateLimit == 10       \* count > 10
RateWindow == 60      \* redis.expire(rateLimitKey, 60)
DedupTTL == 300       \* redis.set(dedupKey, '1', { EX: 300 })
XReadCount == 100     \* { COUNT: 100 }

Participants == {"p1"}
Reviewers == {"r1"}
Clients == Participants \cup Reviewers
SockIds == Clients \X (1..MaxConn)

Null == -1            \* null / undefined (lastStreamId, streamId)
NoTTL == -1           \* a key without expiry
Apology == "Sorry, I encountered an error generating questions."
NoResponse == "No response"

(* item lists a Reviewer sends (already split and trimmed) *)
ItemsA == <<"latency", "retry logic", "error states">>
ItemsB == <<"timeouts">>
Payloads == {ItemsA, ItemsB}
(* the items of ItemsA in another order *)
ItemsAShuffled == <<"retry logic", "latency", "error states">>
ScopePayloads == {ItemsA, ItemsAShuffled}

RECURSIVE Str(_)
(* a string of n characters *)
Str(n) ==
  IF n = 0 THEN ""
  ELSE IF n % 2 = 0 THEN LET half == Str(n \div 2) IN half \o half
  ELSE "x" \o Str(n - 1)

(* a list of n items of one character each *)
Items(n) == [i \in 1..n |-> "x"]

(* item lists at and around the limits of the validation *)
ShapePayloads ==
  { <<>>, <<"">>, ItemsA,
    Items(MaxItems), Items(MaxItems + 1),
    <<Str(MaxChars)>>, <<Str(MaxChars + 1)>>,
    <<Str(MaxChars - 1), "x">>, <<Str(MaxChars - 1), "xx">>,
    [i \in 1..MaxItems |-> IF i = 1 THEN Str(MaxChars - MaxItems + 1) ELSE "x"],
    [i \in 1..(MaxItems + 1) |-> IF i = 1 THEN Str(MaxChars) ELSE "x"] }

AllPayloads == Payloads \cup ShapePayloads \cup ScopePayloads
(* the text the model answers with; "" is an empty message content *)
Question(items) == <<"Q", items>>
Contents(items) == {Question(items)}

VARIABLES
  now,          \* Date.now() / Redis clock, seconds
  followups,    \* followups:stream
  questions,    \* questions:stream
  rate,         \* rate:<socket.id> keys
  dedup,        \* dedup:<itemsHash> keys
  pubsub,       \* payloads published on questions:live
  redisQ,       \* commands sent on the Redis connection, not yet answered
  hs,           \* followup:create handlers, in order of arrival
  rh,           \* request:replay handler of each socket (logLen: history,
                \* the length of questions:stream when the socket connected)
  sock,         \* number of the latest socket of each client
  connected,    \* whether that socket is open
  wire,         \* agent:questions packets on their way to each client
  lastStreamId, \* Participant: lastStreamId.current
  messages,     \* Participant: messages
  speakQueue,   \* Participant: speakQueue.current
  isSpeaking,   \* Participant: isSpeaking.current
  status,       \* Participant: status
  rendering,    \* utterances handed to speechSynthesis.speak, not yet ended
  spoken,       \* history: texts handed to speechSynthesis.speak, in order
  rcvd,         \* history: what each client's socket got, and how
  redisOpen,    \* whether the Redis server at REDIS_URL can be reached
  health        \* history: the answers of GET /health, each with redisOpen
                \* at the time of the request

redisVars == <<followups, questions, rate, dedup, pubsub>>
srvVars == <<redisQ, hs, rh>>
netVars == <<sock, connected, wire>>
schedVars == <<speakQueue, isSpeaking, status, rendering, spoken>>
cliVars == <<lastStreamId, messages, speakQueue, isSpeaking, status, rendering, spoken>>
opsVars == <<redisOpen, health>>
vars == <<now, followups, questions, rate, dedup, pubsub, redisQ, hs, rh,
          sock, connected, wire, lastStreamId, messages, speakQueue,
          isSpeaking, status, rendering, spoken, rcvd, redisOpen, health>>

(* ---- helpers ---- *)
RECURSIVE SumLen(_)
SumLen(items) == IF items = <<>> THEN 0 ELSE Len(Head(items)) + SumLen(Tail(items))

Take(s, n) == SubSeq(s, 1, IF Len(s) < n THEN Len(s) ELSE n)

Range(s) == {s[i] : i \in 1..Len(s)}

(* the socket the server holds for client c *)
CurSock(c) == <<c, sock[c]>>
IsOpen(s) == connected[s[1]] /\ sock[s[1]] = s[2]

NoKey == [count |-> 0, expiry |-> NoTTL]
Gone == -2

(* ---- Participant: the speech queue (speak / processQueue) ---- *)
(* The scheduler's part of a Participant's state, as one record. *)
Sched(c) == [q |-> speakQueue[c], speaking |-> isSpeaking[c], status |-> status[c],
             rendering |-> rendering[c], spoken |-> spoken[c]]

(* processQueue without the isSpeaking test *)
ProcessQueueNoFlag(st) ==
  IF Len(st.q) = 0 THEN st
  ELSE [q |-> Tail(st.q), speaking |-> TRUE, status |-> "speaking",
        rendering |-> Append(st.rendering, Head(st.q)),
        spoken |-> Append(st.spoken, Head(st.q))]

(* processQueue: start the head item unless one is active or none is queued. *)
ProcessQueue(st) ==
  IF st.speaking \/ Len(st.q) = 0 THEN st
  ELSE [q |-> Tail(st.q), speaking |-> TRUE, status |-> "speaking",
        rendering |-> Append(st.rendering, Head(st.q)),
        spoken |-> Append(st.spoken, Head(st.q))]

(* speak that cancels the utterance being spoken when the same text comes *)
(* again, and leaves isSpeaking set                                        *)
SpeakCancelsRepeat(st, text) ==
  IF st.rendering = <<text>>
  THEN [st EXCEPT !.q = Append(@, text), !.rendering = <<>>]
  ELSE ProcessQueue([st EXCEPT !.q = Append(@, text)])

(* speak with unshift in place of push *)
SpeakFront(st, text) == ProcessQueue([st EXCEPT !.q = <<text>> \o @])

(* speak(text) *)
Speak(st, text) == ProcessQueue([st EXCEPT !.q = Append(@, text)])

(* utterance.onend *)
OnEndHandler(st) ==
  ProcessQueue([st EXCEPT !.speaking = FALSE,
                          !.status = IF Len(st.q) = 0 THEN "ready" ELSE @,
                          !.rendering = Tail(@)])

(* onerror that forgets to call processQueue *)
OnErrorNoNext(st) ==
  [st EXCEPT !.speaking = FALSE, !.status = "ready", !.rendering = Tail(@)]

(* utterance.onerror *)
OnErrorHandler(st) ==
  ProcessQueue([st EXCEPT !.speaking = FALSE, !.status = "ready",
                          !.rendering = Tail(@)])

SetSched(c, st) ==
  /\ speakQueue' = [speakQueue EXCEPT ![c] = st.q]
  /\ isSpeaking' = [isSpeaking EXCEPT ![c] = st.speaking]
  /\ status' = [status EXCEPT ![c] = st.status]
  /\ rendering' = [rendering EXCEPT ![c] = st.rendering]
  /\ spoken' = [spoken EXCEPT ![c] = st.spoken]

(* The utterance being spoken ends. *)
RenderEnd(c) ==
  /\ c \in Participants
  /\ rendering[c] # <<>>
  /\ SetSched(c, OnEndHandler(Sched(c)))
  /\ UNCHANGED <<opsVars, now, redisVars, srvVars, netVars, lastStreamId, messages, rcvd>>

(* The utterance being spoken fails. *)
RenderError(c) ==
  /\ c \in Participants
  /\ rendering[c] # <<>>
  /\ SetSched(c, OnErrorHandler(Sched(c)))
  /\ UNCHANGED <<opsVars, now, redisVars, srvVars, netVars, lastStreamId, messages, rcvd>>

(* ---- Socket.IO: emitting to clients ---- *)
(* The Reviewer app registers no agent:questions listener: a packet that   *)
(* reaches it changes nothing, so it is recorded in rcvd when emitted.     *)
Packet(text, createdAt, streamId, via) ==
  [text |-> text, createdAt |-> createdAt, streamId |-> streamId, via |-> via]

Seen(s, m) == [sock |-> s[2], via |-> m.via, id |-> m.streamId, text |-> m.text]

(* socket.emit('agent:questions', ...) for each packet of ms, on socket s *)
WireAfterEmit(s, ms) ==
  IF IsOpen(s) /\ s[1] \in Participants
  THEN [wire EXCEPT ![s[1]] = @ \o ms] ELSE wire

RcvdAfterEmit(s, ms) ==
  IF IsOpen(s) /\ s[1] \in Reviewers
  THEN [rcvd EXCEPT ![s[1]] = @ \o [i \in 1..Len(ms) |-> Seen(s, ms[i])]] ELSE rcvd

(* app.io.emit('agent:questions', m): every open socket *)
WireAfterBroadcast(m) ==
  [c \in Clients |-> IF connected[c] /\ c \in Participants
                     THEN Append(wire[c], m) ELSE wire[c]]

RcvdAfterBroadcast(m) ==
  [c \in Clients |-> IF connected[c] /\ c \in Reviewers
                     THEN Append(rcvd[c], Seen(CurSock(c), m)) ELSE rcvd[c]]

(* ---- Participant: socket handlers ---- *)
(* socket.on('connect'): a new socket; the Participant asks for a replay   *)
(* from its cursor.                                                        *)
Connect(c) ==
  /\ ~connected[c]
  /\ sock[c] < MaxConn
  /\ sock' = [sock EXCEPT ![c] = @ + 1]
  /\ connected' = [connected EXCEPT ![c] = TRUE]
  /\ IF c \in Participants
     THEN /\ status' = [status EXCEPT ![c] = "ready"]
          /\ rh' = [rh EXCEPT ![<<c, sock[c] + 1>>] =
                       [pc |-> "sent", from |-> lastStreamId[c],
                        logLen |-> Len(questions)]]
     ELSE UNCHANGED <<status, rh>>
  /\ UNCHANGED <<opsVars, now, redisVars, redisQ, hs, wire, lastStreamId, messages,
                 speakQueue, isSpeaking, rendering, spoken, rcvd>>

(* socket.on('disconnect'): packets in flight in either direction are lost *)
Disconnect(c) ==
  /\ connected[c]
  /\ connected' = [connected EXCEPT ![c] = FALSE]
  /\ wire' = [wire EXCEPT ![c] = <<>>]
  /\ rh' = [rh EXCEPT ![CurSock(c)] =
               IF @.pc = "sent" THEN [@ EXCEPT !.pc = "lost"] ELSE @]
  /\ status' = IF c \in Participants
               THEN [status EXCEPT ![c] = "disconnected"] ELSE status
  /\ UNCHANGED <<opsVars, now, redisVars, redisQ, hs, sock, lastStreamId, messages,
                 speakQueue, isSpeaking, rendering, spoken, rcvd>>

(* an agent:questions listener that stores data.streamId without testing it *)
DeliverAlwaysSets(c) ==
  /\ c \in Participants
  /\ connected[c]
  /\ wire[c] # <<>>
  /\ LET m == Head(wire[c]) IN
       /\ wire' = [wire EXCEPT ![c] = Tail(@)]
       /\ messages' = [messages EXCEPT ![c] =
             Append(@, [text |-> m.text, createdAt |-> m.createdAt,
                        streamId |-> m.streamId])]
       /\ SetSched(c, Speak(Sched(c), m.text))
       /\ lastStreamId' = [lastStreamId EXCEPT ![c] = m.streamId]
       /\ rcvd' = [rcvd EXCEPT ![c] = Append(@, Seen(CurSock(c), m))]
  /\ UNCHANGED <<opsVars, now, redisVars, srvVars, sock, connected>>

(* socket.on('agent:questions') *)
Deliver(c) ==
  /\ c \in Participants
  /\ connected[c]
  /\ wire[c] # <<>>
  /\ LET m == Head(wire[c]) IN
       /\ wire' = [wire EXCEPT ![c] = Tail(@)]
       /\ messages' = [messages EXCEPT ![c] =
             Append(@, [text |-> m.text, createdAt |-> m.createdAt,
                        streamId |-> m.streamId])]
       /\ SetSched(c, Speak(Sched(c), m.text))
       /\ lastStreamId' = IF m.streamId # Null
                          THEN [lastStreamId EXCEPT ![c] = m.streamId]
                          ELSE lastStreamId
       /\ rcvd' = [rcvd EXCEPT ![c] = Append(@, Seen(CurSock(c), m))]
  /\ UNCHANGED <<opsVars, now, redisVars, srvVars, sock, connected>>

(* ---- server: followup:create ---- *)
(* the validation with >= in place of > in the test of the item count *)
ValidateInclusive(items) ==
  IF Len(items) = 0 THEN "EmptyInput"
  ELSE IF Len(items) >= MaxItems THEN "TooManyItems"
  ELSE IF SumLen(items) > MaxChars THEN "TooManyCharacters"
  ELSE "ok"

(* the three validation checks, in the handler's order *)
Validate(items) ==
  IF Len(items) = 0 THEN "EmptyInput"
  ELSE IF Len(items) > MaxItems THEN "TooManyItems"
  ELSE IF SumLen(items) > MaxChars THEN "TooManyCharacters"
  ELSE "ok"

(* !data.items || ... : the checks on an event whose data may lack items *)
ValidateData(has, items) == IF ~has THEN "EmptyInput" ELSE Validate(items)

(* Buffer.from(JSON.stringify(data.items)).toString('base64'): one key per *)
(* item list, order included                                               *)
(* a hash of the items that ignores their order *)
ItemsHashSorted(items) == <<"dedup", Range(items)>>

ItemsHash(items) == <<"dedup", items>>
DedupKeys == {ItemsHash(p) : p \in AllPayloads}

(* One run of the handler. Beside its local variables (count, aiText,      *)
(* streamId) the record keeps what the run met and did: whether data.items *)
(* was present (has), the time it arrived (at), the calls it made to       *)
(* OpenAI (calls), the Redis commands of its that were answered with an    *)
(* error (errs) and the sockets that were open when its entry was appended *)
(* (conn).                                                                 *)
Handler(s, items, pc, out) ==
  [sock |-> s, items |-> items, pc |-> pc, out |-> out, at |-> now,
   count |-> 0, aiText |-> "", streamId |-> Null,
   has |-> TRUE, calls |-> 0, errs |-> 0, conn |-> {}]

Cmd(op, h, s, arg) == [op |-> op, h |-> h, sock |-> s, arg |-> arg]

InFlight == Cardinality({i \in 1..Len(hs) : hs[i].pc # "done"})

(* followup:create that counts the submission before it validates it *)
FollowupCreateCounts(c, items, maxSubs) ==
  /\ c \in Clients
  /\ connected[c]
  /\ Len(hs) < maxSubs
  /\ InFlight < MaxFlight
  /\ LET v == Validate(items)
         h == Len(hs) + 1
     IN /\ hs' = Append(hs, Handler(CurSock(c), items, "incr", IF v # "ok" THEN v ELSE ""))
        /\ redisQ' = Append(redisQ, Cmd("INCR", h, CurSock(c), 0))
  /\ UNCHANGED <<opsVars, now, redisVars, rh, netVars, cliVars, rcvd>>

(* a followup:create event arrives from c's socket: validation, then the   *)
(* handler waits for redis.incr                                            *)
FollowupCreate(c, items, maxSubs) ==
  /\ c \in Clients
  /\ connected[c]
  /\ Len(hs) < maxSubs
  /\ InFlight < MaxFlight
  /\ LET v == Validate(items)
         h == Len(hs) + 1
     IN IF v # "ok"
        THEN /\ hs' = Append(hs, Handler(CurSock(c), items, "done", v))
             /\ UNCHANGED redisQ
        ELSE /\ hs' = Append(hs, Handler(CurSock(c), items, "incr", ""))
             /\ redisQ' = Append(redisQ, Cmd("INCR", h, CurSock(c), 0))
  /\ UNCHANGED <<opsVars, now, redisVars, rh, netVars, cliVars, rcvd>>

(* a followup:create event whose data has no items arrives from c's socket *)
FollowupCreateNoItems(c, maxSubs) ==
  /\ c \in Clients
  /\ connected[c]
  /\ Len(hs) < maxSubs
  /\ InFlight < MaxFlight
  /\ hs' = Append(hs, [Handler(CurSock(c), <<>>, "done", ValidateData(FALSE, <<>>))
                         EXCEPT !.has = FALSE])
  /\ UNCHANGED <<opsVars, now, redisVars, redisQ, rh, netVars, cliVars, rcvd>>

(* a key that has a TTL is gone once the clock has passed it *)
Expired(e) == e # NoTTL /\ now > e
RateKey(s) == IF rate[s].count > 0 /\ ~Expired(rate[s].expiry) THEN rate[s] ELSE NoKey

(* a dedup key that outlives its TTL *)
DedupExistsForever(k) == dedup[k] # Gone

(* redis.get(dedupKey) finds the key *)
DedupExists(k) == dedup[k] # Gone /\ ~Expired(dedup[k])

(* INCR rate:<socket.id> answered; the handler calls redis.expire *)
ReplyIncr ==
  /\ redisQ # <<>> /\ Head(redisQ).op = "INCR"
  /\ LET c == Head(redisQ)
         r == RateKey(c.sock)
         n == r.count + 1
     IN /\ rate' = [rate EXCEPT ![c.sock] = [count |-> n, expiry |-> r.expiry]]
        /\ hs' = [hs EXCEPT ![c.h].count = n, ![c.h].pc = "expire"]
        /\ redisQ' = Append(Tail(redisQ), Cmd("EXPIRE", c.h, c.sock, 0))
  /\ UNCHANGED <<opsVars, now, followups, questions, dedup, pubsub, rh, netVars, cliVars, rcvd>>

(* count >= 10 in place of count > 10 *)
OverLimitOffByOne(count) == count >= RateLimit

(* if (count > 10) *)
OverLimit(count) == count > RateLimit

(* the time a key expires that is given a TTL of ttl seconds now *)
ExpiryAfter(ttl) == now + ttl

(* the rate check without its return *)
ReplyExpireNoReturn ==
  /\ redisQ # <<>> /\ Head(redisQ).op = "EXPIRE"
  /\ LET c == Head(redisQ)
         r == RateKey(c.sock)
     IN /\ rate' = [rate EXCEPT ![c.sock] =
                      IF r.count > 0 THEN [r EXCEPT !.expiry = ExpiryAfter(RateWindow)]
                      ELSE NoKey]
        /\ hs' = [hs EXCEPT ![c.h].pc = "get",
                            ![c.h].out = IF OverLimit(hs[c.h].count) THEN "RateLimited" ELSE @]
        /\ redisQ' = Append(Tail(redisQ), Cmd("GET", c.h, c.sock, 0))
  /\ UNCHANGED <<opsVars, now, followups, questions, dedup, pubsub, rh, netVars, cliVars, rcvd>>

(* EXPIRE rate:<socket.id> 60 answered; count > 10 ends the handler, or it *)
(* calls redis.get(dedupKey)                                               *)
ReplyExpire ==
  /\ redisQ # <<>> /\ Head(redisQ).op = "EXPIRE"
  /\ LET c == Head(redisQ)
         r == RateKey(c.sock)
     IN /\ rate' = [rate EXCEPT ![c.sock] =
                      IF r.count > 0 THEN [r EXCEPT !.expiry = ExpiryAfter(RateWindow)]
                      ELSE NoKey]
        /\ IF OverLimit(hs[c.h].count)
           THEN /\ hs' = [hs EXCEPT ![c.h].pc = "done", ![c.h].out = "RateLimited"]
                /\ redisQ' = Tail(redisQ)
           ELSE /\ hs' = [hs EXCEPT ![c.h].pc = "get"]
                /\ redisQ' = Append(Tail(redisQ), Cmd("GET", c.h, c.sock, 0))
  /\ UNCHANGED <<opsVars, now, followups, questions, dedup, pubsub, rh, netVars, cliVars, rcvd>>

(* a dedupe check that tells the submitter of the duplicate *)
ReplyGetNotifies ==
  /\ redisQ # <<>> /\ Head(redisQ).op = "GET"
  /\ LET c == Head(redisQ)
         ms == <<Packet(Apology, now, Null, "notice")>>
     IN IF DedupExists(ItemsHash(hs[c.h].items))
        THEN /\ hs' = [hs EXCEPT ![c.h].pc = "done", ![c.h].out = "Duplicate"]
             /\ redisQ' = Tail(redisQ)
             /\ wire' = WireAfterEmit(c.sock, ms)
             /\ rcvd' = RcvdAfterEmit(c.sock, ms)
        ELSE /\ hs' = [hs EXCEPT ![c.h].pc = "set"]
             /\ redisQ' = Append(Tail(redisQ), Cmd("SET", c.h, c.sock, 0))
             /\ UNCHANGED <<wire, rcvd>>
  /\ UNCHANGED <<opsVars, now, redisVars, rh, sock, connected, cliVars>>

(* GET dedup:<hash> answered; a hit ends the handler, or it calls redis.set *)
ReplyGet ==
  /\ redisQ # <<>> /\ Head(redisQ).op = "GET"
  /\ LET c == Head(redisQ) IN
       IF DedupExists(ItemsHash(hs[c.h].items))
       THEN /\ hs' = [hs EXCEPT ![c.h].pc = "done", ![c.h].out = "Duplicate"]
            /\ redisQ' = Tail(redisQ)
       ELSE /\ hs' = [hs EXCEPT ![c.h].pc = "set"]
            /\ redisQ' = Append(Tail(redisQ), Cmd("SET", c.h, c.sock, 0))
  /\ UNCHANGED <<opsVars, now, redisVars, rh, netVars, cliVars, rcvd>>

(* a handler that calls OpenAI as soon as the dedup key is set, without    *)
(* storing the submission                                                  *)
ReplySetCallsOpenAI ==
  /\ redisQ # <<>> /\ Head(redisQ).op = "SET"
  /\ LET c == Head(redisQ) IN
       /\ dedup' = [dedup EXCEPT ![ItemsHash(hs[c.h].items)] = ExpiryAfter(DedupTTL)]
       /\ hs' = [hs EXCEPT ![c.h].pc = "openai", ![c.h].calls = @ + 1]
       /\ redisQ' = Tail(redisQ)
  /\ UNCHANGED <<opsVars, now, followups, questions, rate, pubsub, rh, netVars, cliVars, rcvd>>

(* SET dedup:<hash> '1' EX 300 answered; the handler appends the raw       *)
(* submission to followups:stream                                          *)
ReplySet ==
  /\ redisQ # <<>> /\ Head(redisQ).op = "SET"
  /\ LET c == Head(redisQ) IN
       /\ dedup' = [dedup EXCEPT ![ItemsHash(hs[c.h].items)] = ExpiryAfter(DedupTTL)]
       /\ hs' = [hs EXCEPT ![c.h].pc = "xaddF"]
       /\ redisQ' = Append(Tail(redisQ), Cmd("XADDF", c.h, c.sock, 0))
  /\ UNCHANGED <<opsVars, now, followups, questions, rate, pubsub, rh, netVars, cliVars, rcvd>>

(* an id taken from the clock alone *)
NextIdFromClock(stream) == now + 1

(* XADD * : the id Redis gives the next entry of a stream *)
NextId(stream) == Len(stream) + 1

(* XADD followups:stream answered; the handler calls OpenAI *)
ReplyXAddF ==
  /\ redisQ # <<>> /\ Head(redisQ).op = "XADDF"
  /\ LET c == Head(redisQ) IN
       /\ followups' = Append(followups,
             [id |-> NextId(followups), items |-> hs[c.h].items, socketId |-> c.sock])
       /\ hs' = [hs EXCEPT ![c.h].pc = "openai", ![c.h].calls = @ + 1]
       /\ redisQ' = Tail(redisQ)
  /\ UNCHANGED <<opsVars, now, questions, rate, dedup, pubsub, rh, netVars, cliVars, rcvd>>

(* response.choices[0].message.content || 'No response' *)
AiText(content) == IF content = "" THEN NoResponse ELSE content

(* the completion arrives; the handler appends the text to questions:stream *)
OpenAIReply(h) ==
  /\ h \in 1..Len(hs) /\ hs[h].pc = "openai"
  /\ \E content \in Contents(hs[h].items) :
       /\ hs' = [hs EXCEPT ![h].pc = "xaddQ", ![h].aiText = AiText(content)]
       /\ redisQ' = Append(redisQ, Cmd("XADDQ", h, hs[h].sock, now))
  /\ UNCHANGED <<opsVars, now, redisVars, rh, netVars, cliVars, rcvd>>

(* a catch block that stores the apology as if it were an answer *)
OpenAIErrorAppends(h) ==
  /\ h \in 1..Len(hs) /\ hs[h].pc = "openai"
  /\ LET id == NextId(questions)
         ms == <<Packet(Apology, now, id, "notice")>>
     IN /\ hs' = [hs EXCEPT ![h].pc = "done", ![h].out = "Failed"]
        /\ questions' = Append(questions, [id |-> id, text |-> Apology, createdAt |-> now])
        /\ wire' = WireAfterEmit(hs[h].sock, ms)
        /\ rcvd' = RcvdAfterEmit(hs[h].sock, ms)
  /\ UNCHANGED <<opsVars, now, followups, rate, dedup, pubsub, redisQ, rh, sock, connected, cliVars>>

(* a catch block that takes the submission's admission back *)
OpenAIErrorRollsBack(h) ==
  /\ h \in 1..Len(hs) /\ hs[h].pc = "openai"
  /\ hs' = [hs EXCEPT ![h].pc = "done", ![h].out = "Failed"]
  /\ dedup' = [dedup EXCEPT ![ItemsHash(hs[h].items)] = Gone]
  /\ rate' = [rate EXCEPT ![hs[h].sock] =
                 IF @.count > 0 THEN [@ EXCEPT !.count = @ - 1] ELSE @]
  /\ LET ms == <<Packet(Apology, now, Null, "notice")>> IN
       /\ wire' = WireAfterEmit(hs[h].sock, ms)
       /\ rcvd' = RcvdAfterEmit(hs[h].sock, ms)
  /\ UNCHANGED <<opsVars, now, followups, questions, pubsub, redisQ, rh, sock,
                 connected, cliVars>>

(* the call to OpenAI throws: the catch block sends the apology to the     *)
(* submitting socket                                                       *)
OpenAIError(h) ==
  /\ h \in 1..Len(hs) /\ hs[h].pc = "openai"
  /\ hs' = [hs EXCEPT ![h].pc = "done", ![h].out = "Failed"]
  /\ LET ms == <<Packet(Apology, now, Null, "notice")>> IN
       /\ wire' = WireAfterEmit(hs[h].sock, ms)
       /\ rcvd' = RcvdAfterEmit(hs[h].sock, ms)
  /\ UNCHANGED <<opsVars, now, redisVars, redisQ, rh, sock, connected, cliVars>>

(* XADD questions:stream answered with the entry's id; the handler         *)
(* publishes on questions:live                                             *)
ReplyXAddQ ==
  /\ redisQ # <<>> /\ Head(redisQ).op = "XADDQ"
  /\ LET c == Head(redisQ)
         id == NextId(questions)
     IN /\ questions' = Append(questions,
              [id |-> id, text |-> hs[c.h].aiText, createdAt |-> c.arg])
        /\ hs' = [hs EXCEPT ![c.h].pc = "publish", ![c.h].streamId = id,
                            ![c.h].conn = {CurSock(k) : k \in {x \in Clients : connected[x]}}]
        /\ redisQ' = Append(Tail(redisQ), Cmd("PUBLISH", c.h, c.sock, now))
  /\ UNCHANGED <<opsVars, now, followups, rate, dedup, pubsub, rh, netVars, cliVars, rcvd>>

RemoveAt(q, i) == SubSeq(q, 1, i - 1) \o SubSeq(q, i + 1, Len(q))

(* the broadcast with socket.broadcast.emit: every socket but the sender's *)
PublishToOthers(i) ==
  /\ LET c == redisQ[i]
         h == hs[c.h]
         m == Packet(h.aiText, now, h.streamId, "live")
     IN /\ pubsub' = Append(pubsub,
              [text |-> h.aiText, createdAt |-> c.arg, streamId |-> h.streamId])
        /\ hs' = [hs EXCEPT ![c.h].pc = "done", ![c.h].out = "Done"]
        /\ redisQ' = RemoveAt(redisQ, i)
        /\ wire' = [k \in Clients |-> IF k = c.sock[1] THEN wire[k]
                                                         ELSE WireAfterBroadcast(m)[k]]
        /\ rcvd' = [k \in Clients |-> IF k = c.sock[1] THEN rcvd[k]
                                                         ELSE RcvdAfterBroadcast(m)[k]]
  /\ UNCHANGED <<opsVars, now, followups, questions, rate, dedup, rh, sock, connected, cliVars>>

(* a broadcast whose questionData leaves the streamId out *)
PublishWithoutId(i) ==
  /\ LET c == redisQ[i]
         h == hs[c.h]
         m == Packet(h.aiText, now, Null, "live")
     IN /\ pubsub' = Append(pubsub,
              [text |-> h.aiText, createdAt |-> c.arg, streamId |-> h.streamId])
        /\ hs' = [hs EXCEPT ![c.h].pc = "done", ![c.h].out = "Done"]
        /\ redisQ' = RemoveAt(redisQ, i)
        /\ wire' = WireAfterBroadcast(m)
        /\ rcvd' = RcvdAfterBroadcast(m)
  /\ UNCHANGED <<opsVars, now, followups, questions, rate, dedup, rh, sock, connected, cliVars>>

(* the PUBLISH at place i of redisQ is answered; its handler broadcasts    *)
(* the question to every socket                                            *)
PublishAnswered(i) ==
  /\ LET c == redisQ[i]
         h == hs[c.h]
         m == Packet(h.aiText, now, h.streamId, "live")
     IN /\ pubsub' = Append(pubsub,
              [text |-> h.aiText, createdAt |-> c.arg, streamId |-> h.streamId])
        /\ hs' = [hs EXCEPT ![c.h].pc = "done", ![c.h].out = "Done"]
        /\ redisQ' = RemoveAt(redisQ, i)
        /\ wire' = WireAfterBroadcast(m)
        /\ rcvd' = RcvdAfterBroadcast(m)
  /\ UNCHANGED <<opsVars, now, followups, questions, rate, dedup, rh, sock, connected, cliVars>>

(* PUBLISH answered out of turn, as over a second connection *)
ReplyPublishAnyOrder ==
  \E i \in 1..Len(redisQ) : redisQ[i].op = "PUBLISH" /\ PublishAnswered(i)

(* PUBLISH answered *)
ReplyPublish ==
  /\ redisQ # <<>> /\ Head(redisQ).op = "PUBLISH"
  /\ PublishAnswered(1)

(* ---- server: request:replay ---- *)
(* lastStreamId || '0' *)
XReadStart(lastId) == IF lastId = Null THEN 0 ELSE lastId

(* XREAD COUNT count STREAMS stream start: the entries after start, at     *)
(* most count of them                                                      *)
XRead(stream, start, count) ==
  Take(SelectSeq(stream, LAMBDA e : e.id > start), count)

(* the request:replay event of socket s arrives; the handler waits for     *)
(* redis.xRead                                                             *)
ReplayArrive(s) ==
  /\ s \in SockIds
  /\ rh[s].pc = "sent"
  /\ IsOpen(s)
  /\ rh' = [rh EXCEPT ![s].pc = "xread"]
  /\ redisQ' = Append(redisQ, Cmd("XREAD", 0, s, XReadStart(rh[s].from)))
  /\ UNCHANGED <<opsVars, now, redisVars, hs, netVars, cliVars, rcvd>>

(* XREAD answered; the handler emits every entry it got to its socket *)
ReplyXRead ==
  /\ redisQ # <<>> /\ Head(redisQ).op = "XREAD"
  /\ LET c == Head(redisQ)
         got == XRead(questions, c.arg, XReadCount)
         ms == [i \in 1..Len(got) |->
                  Packet(got[i].text, got[i].createdAt, got[i].id, "replay")]
     IN /\ wire' = WireAfterEmit(c.sock, ms)
        /\ rcvd' = RcvdAfterEmit(c.sock, ms)
        /\ rh' = [rh EXCEPT ![c.sock].pc = "done"]
        /\ redisQ' = Tail(redisQ)
  /\ UNCHANGED <<opsVars, now, redisVars, hs, sock, connected, cliVars>>

(* ---- Redis answers with an error ---- *)
(* a catch block that sends the apology to every socket *)
RedisErrorBroadcast ==
  /\ redisQ # <<>>
  /\ LET c == Head(redisQ)
         m == Packet(Apology, now, Null, "notice")
     IN IF c.op = "XREAD"
        THEN /\ rh' = [rh EXCEPT ![c.sock].pc = "done"]
             /\ UNCHANGED <<hs, wire, rcvd>>
        ELSE /\ hs' = [hs EXCEPT ![c.h].pc = "done", ![c.h].out = "Failed",
                                  ![c.h].errs = @ + 1]
             /\ wire' = WireAfterBroadcast(m)
             /\ rcvd' = RcvdAfterBroadcast(m)
             /\ UNCHANGED rh
  /\ redisQ' = Tail(redisQ)
  /\ UNCHANGED <<opsVars, now, redisVars, sock, connected, cliVars>>

(* The command at the head of the connection is not executed and its       *)
(* promise rejects. In followup:create the catch block sends the apology   *)
(* to the submitting socket; in request:replay the catch block only logs.  *)
RedisError ==
  /\ redisQ # <<>>
  /\ LET c == Head(redisQ)
         ms == <<Packet(Apology, now, Null, "notice")>>
     IN IF c.op = "XREAD"
        THEN /\ rh' = [rh EXCEPT ![c.sock].pc = "done"]
             /\ UNCHANGED <<hs, wire, rcvd>>
        ELSE /\ hs' = [hs EXCEPT ![c.h].pc = "done", ![c.h].out = "Failed",
                                  ![c.h].errs = @ + 1]
             /\ wire' = WireAfterEmit(c.sock, ms)
             /\ rcvd' = RcvdAfterEmit(c.sock, ms)
             /\ UNCHANGED rh
  /\ redisQ' = Tail(redisQ)
  /\ UNCHANGED <<opsVars, now, redisVars, sock, connected, cliVars>>

(* ---- time ---- *)
(* Redis answers a command in far less than one step of the clock *)
Tick ==
  /\ redisQ = <<>>
  /\ now + TickStep <= MaxTime
  /\ now' = now + TickStep
  /\ UNCHANGED <<opsVars, redisVars, srvVars, netVars, cliVars, rcvd>>

(* minutes pass *)
TickLong ==
  /\ redisQ = <<>>
  /\ now + LongStep <= MaxLongTime
  /\ now' = now + LongStep
  /\ UNCHANGED <<opsVars, redisVars, srvVars, netVars, cliVars, rcvd>>

(* ---- GET /health ---- *)
(* the route handler of services/server/server.ts *)
HealthBody == [ok |-> TRUE]

(* the route handler of the reference server, redis.isOpen being isOpen *)
HealthBodyRedis(isOpen) == [ok |-> TRUE, redis |-> isOpen]

(* a GET /health request is answered, by the server of server.ts or by the *)
(* reference server                                                        *)
HealthGet ==
  /\ Len(health) < MaxHealth
  /\ \E body \in {HealthBody, HealthBodyRedis(redisOpen)} :
       health' = Append(health, [open |-> redisOpen, body |-> body])
  /\ UNCHANGED <<now, redisVars, srvVars, netVars, cliVars, rcvd, redisOpen>>

(* the Redis server becomes unreachable *)
RedisDown ==
  /\ redisOpen
  /\ redisOpen' = FALSE
  /\ UNCHANGED <<now, redisVars, srvVars, netVars, cliVars, rcvd, health>>

(* the Redis server can be reached again *)
RedisUp ==
  /\ ~redisOpen
  /\ redisOpen' = TRUE
  /\ UNCHANGED <<now, redisVars, srvVars, netVars, cliVars, rcvd, health>>

(* ---- the server is up, the Reviewer app is connected, the Participant   *)
(* app is open and about to connect ---- *)
Init ==
  /\ now = 0
  /\ followups = <<>> /\ questions = <<>> /\ pubsub = <<>>
  /\ rate = [s \in SockIds |-> NoKey]
  /\ dedup = [k \in DedupKeys |-> Gone]
  /\ redisQ = <<>> /\ hs = <<>>
  /\ rh = [s \in SockIds |-> [pc |-> "none", from |-> Null, logLen |-> 0]]
  /\ sock = [c \in Clients |-> IF c \in Reviewers THEN 1 ELSE 0]
  /\ connected = [c \in Clients |-> c \in Reviewers]
  /\ wire = [c \in Clients |-> <<>>]
  /\ lastStreamId = [c \in Participants |-> Null]
  /\ messages = [c \in Participants |-> <<>>]
  /\ speakQueue = [c \in Participants |-> <<>>]
  /\ isSpeaking = [c \in Participants |-> FALSE]
  /\ status = [c \in Participants |-> "disconnected"]
  /\ rendering = [c \in Participants |-> <<>>]
  /\ spoken = [c \in Participants |-> <<>>]
  /\ rcvd = [c \in Clients |-> <<>>]
  /\ redisOpen = TRUE
  /\ health = <<>>

Next ==
  \/ \E c \in Participants : Connect(c)
  \/ \E c \in Participants : Disconnect(c)
  \/ \E c \in Reviewers, items \in Payloads : FollowupCreate(c, items, MaxSubs)
  \/ ReplyIncr \/ ReplyExpire \/ ReplyGet \/ ReplySet
  \/ ReplyXAddF \/ ReplyXAddQ \/ ReplyPublish
  \/ \E h \in 1..MaxSubs : OpenAIReply(h)
  \/ \E h \in 1..MaxSubs : OpenAIError(h)
  \/ \E s \in SockIds : ReplayArrive(s)
  \/ ReplyXRead
  \/ \E c \in Participants : Deliver(c)
  \/ \E c \in Participants : RenderEnd(c)
  \/ \E c \in Participants : RenderError(c)

Spec == Init /\ [][Next]_vars

(* ---- replay of a long log ---- *)
(* The state after n submissions of ItemsA by r1, one every DedupTTL + 1   *)
(* seconds, each transformed, appended and broadcast, while p1 stayed      *)
(* connected until it had received the first k of them and then lost its   *)
(* connection.                                                             *)
SubmittedAt(i) == (i - 1) * (DedupTTL + 1)

InitReplay ==
  \E n \in 0..MaxLog : \E k \in 0..n :
    /\ now = SubmittedAt(n + 1)
    /\ followups = [i \in 1..n |-> [id |-> i, items |-> ItemsA, socketId |-> <<"r1", 1>>]]
    /\ questions = [i \in 1..n |->
           [id |-> i, text |-> Question(ItemsA), createdAt |-> SubmittedAt(i)]]
    /\ pubsub = [i \in 1..n |->
           [text |-> Question(ItemsA), createdAt |-> SubmittedAt(i), streamId |-> i]]
    /\ rate = [s \in SockIds |-> NoKey]
    /\ dedup = [d \in DedupKeys |-> Gone]
    /\ redisQ = <<>> /\ hs = <<>>
    /\ rh = [s \in SockIds |-> [pc |-> IF s = <<"p1", 1>> THEN "done" ELSE "none",
                                from |-> Null, logLen |-> 0]]
    /\ sock = [c \in Clients |-> 1]
    /\ connected = [c \in Clients |-> c \in Reviewers]
    /\ wire = [c \in Clients |-> <<>>]
    /\ lastStreamId = [c \in Participants |-> IF k = 0 THEN Null ELSE k]
    /\ messages = [c \in Participants |-> [i \in 1..k |->
           [text |-> Question(ItemsA), createdAt |-> SubmittedAt(i), streamId |-> i]]]
    /\ speakQueue = [c \in Participants |-> <<>>]
    /\ isSpeaking = [c \in Participants |-> FALSE]
    /\ status = [c \in Participants |-> "disconnected"]
    /\ rendering = [c \in Participants |-> <<>>]
    /\ spoken = [c \in Participants |-> [i \in 1..k |-> Question(ItemsA)]]
    /\ rcvd = [c \in Clients |-> [i \in 1..(IF c \in Reviewers THEN n ELSE k) |->
           [sock |-> 1, via |-> "live", id |-> i, text |-> Question(ItemsA)]]]
    /\ redisOpen = TRUE
    /\ health = <<>>

NextReplay ==
  \/ \E c \in Participants : Connect(c)
  \/ \E s \in SockIds : ReplayArrive(s)
  \/ ReplyXRead
  \/ \E c \in Participants : Deliver(c)

SpecReplay == InitReplay /\ [][NextReplay]_vars

(* ---- admission over time: one Reviewer keeps submitting ---- *)
AdmitPayloads == {ItemsA}

NextAdmit ==
  \/ \E c \in Reviewers, items \in AdmitPayloads : FollowupCreate(c, items, MaxAdmitSubs)
  \/ ReplyIncr \/ ReplyExpire \/ ReplyGet \/ ReplySet
  \/ ReplyXAddF \/ ReplyXAddQ \/ ReplyPublish
  \/ \E h \in 1..MaxAdmitSubs : OpenAIReply(h)
  \/ \E h \in 1..MaxAdmitSubs : OpenAIError(h)
  \/ Tick

SpecAdmit == Init /\ [][NextAdmit]_vars

(* ---- dedupe over minutes: one Reviewer submits two item lists ---- *)
NextDedup ==
  \/ \E c \in Reviewers, items \in Payloads : FollowupCreate(c, items, MaxDedupSubs)
  \/ ReplyIncr \/ ReplyExpire \/ ReplyGet \/ ReplySet
  \/ ReplyXAddF \/ ReplyXAddQ \/ ReplyPublish
  \/ \E h \in 1..MaxDedupSubs : OpenAIReply(h)
  \/ \E h \in 1..MaxDedupSubs : OpenAIError(h)
  \/ TickLong

SpecDedup == Init /\ [][NextDedup]_vars

(* ---- dedupe over minutes, with Redis answering with errors ---- *)
NextRollback ==
  \/ NextDedup
  \/ RedisError

SpecRollback == Init /\ [][NextRollback]_vars

(* ---- two submitting sockets: the Reviewer submits one item list until   *)
(* its counter has reached the limit, then either socket submits that list *)
(* or its items in another order, over minutes; each handler is followed   *)
(* up to its call to OpenAI ---- *)
NextScope ==
  \/ \E c \in Participants : Connect(c)
  \/ \E c \in Reviewers :
       Len(hs) < RateLimit /\ FollowupCreate(c, ItemsA, MaxScopeSubs)
  \/ \E c \in Clients, items \in ScopePayloads :
       Len(hs) >= RateLimit /\ FollowupCreate(c, items, MaxScopeSubs)
  \/ ReplyIncr \/ ReplyExpire \/ ReplyGet \/ ReplySet \/ ReplyXAddF
  \/ TickLong

SpecScope == Init /\ [][NextScope]_vars

(* ---- the shape checks: submissions at the limits, up to admission ---- *)
NextShape ==
  \/ \E c \in Reviewers, items \in ShapePayloads : FollowupCreate(c, items, MaxShapeSubs)
  \/ \E c \in Reviewers : FollowupCreateNoItems(c, MaxShapeSubs)
  \/ ReplyIncr \/ ReplyExpire \/ ReplyGet \/ ReplySet \/ ReplyXAddF

SpecShape == Init /\ [][NextShape]_vars

(* ---- admission with every kind of rejection: ten submissions of one    *)
(* item list, then submissions of any kind ---- *)
FramePayloads == {ItemsA, ItemsB, <<>>, Items(MaxItems + 1), <<Str(MaxChars + 1)>>}

NextFrame ==
  \/ \E c \in Reviewers :
       \E items \in IF Len(hs) < RateLimit THEN AdmitPayloads ELSE FramePayloads :
         FollowupCreate(c, items, MaxFrameSubs)
  \/ \E c \in Reviewers : Len(hs) >= RateLimit /\ FollowupCreateNoItems(c, MaxFrameSubs)
  \/ ReplyIncr \/ ReplyExpire \/ ReplyGet \/ ReplySet
  \/ ReplyXAddF \/ ReplyXAddQ \/ ReplyPublish
  \/ \E h \in 1..MaxFrameSubs : OpenAIReply(h)
  \/ \E h \in 1..MaxFrameSubs : OpenAIError(h)

SpecFrame == Init /\ [][NextFrame]_vars

(* ---- failures: OpenAI throws, Redis answers with an error ---- *)
NextFail ==
  \/ \E c \in Participants : Connect(c)
  \/ \E c \in Reviewers, items \in Payloads : FollowupCreate(c, items, MaxFailSubs)
  \/ ReplyIncr \/ ReplyExpire \/ ReplyGet \/ ReplySet
  \/ ReplyXAddF \/ ReplyXAddQ \/ ReplyPublish
  \/ \E h \in 1..MaxFailSubs : OpenAIReply(h)
  \/ \E h \in 1..MaxFailSubs : OpenAIError(h)
  \/ RedisError
  \/ \E s \in SockIds : ReplayArrive(s)
  \/ ReplyXRead
  \/ \E c \in Participants : Deliver(c)

SpecFail == Init /\ [][NextFail]_vars

(* ---- the health check while Redis comes and goes: commands are answered *)
(* while it can be reached and fail while it cannot ---- *)
NextHealth ==
  \/ HealthGet
  \/ RedisDown
  \/ RedisUp
  \/ \E c \in Reviewers, items \in Payloads : FollowupCreate(c, items, MaxHealthSubs)
  \/ redisOpen /\ (ReplyIncr \/ ReplyExpire \/ ReplyGet \/ ReplySet
                    \/ ReplyXAddF \/ ReplyXAddQ \/ ReplyPublish)
  \/ ~redisOpen /\ RedisError
  \/ \E h \in 1..MaxHealthSubs : OpenAIReply(h)
  \/ \E h \in 1..MaxHealthSubs : OpenAIError(h)

SpecHealth == Init /\ [][NextHealth]_vars

(* ---- the cursor: a client that listens, reconnects and also submits,    *)
(* so that failure notices reach a socket that keeps a cursor ---- *)
NextCursor ==
  \/ \E c \in Participants : Connect(c)
  \/ \E c \in Participants : Disconnect(c)
  \/ \E c \in Clients, items \in Payloads : FollowupCreate(c, items, MaxCursorSubs)
  \/ ReplyIncr \/ ReplyExpire \/ ReplyGet \/ ReplySet
  \/ ReplyXAddF \/ ReplyXAddQ \/ ReplyPublish
  \/ \E h \in 1..MaxCursorSubs : OpenAIReply(h)
  \/ \E h \in 1..MaxCursorSubs : OpenAIError(h)
  \/ \E s \in SockIds : ReplayArrive(s)
  \/ ReplyXRead
  \/ \E c \in Participants : Deliver(c)

SpecCursor == Init /\ [][NextCursor]_vars

(* Redis answers every command; nothing is assumed of OpenAI *)
FairFail ==
  SpecFail /\ WF_vars(ReplyIncr \/ ReplyExpire \/ ReplyGet \/ ReplySet \/ ReplyXAddF
                      \/ ReplyXAddQ \/ ReplyPublish \/ ReplyXRead \/ RedisError)

(* the scheduler, given that every render that starts ends or fails *)
FairSpec ==
  Spec /\ \A c \in Participants : WF_vars(RenderEnd(c) \/ RenderError(c))

(* ======================= the claims ======================= *)

(* what c's current socket got from the replay handler, in order *)
ReplayedIds(c) ==
  LET got == SelectSeq(rcvd[c], LAMBDA r : r.sock = sock[c] /\ r.via = "replay")
  IN [i \in 1..Len(got) |-> got[i].id]

(* c is connected, its replay was answered and nothing is on its wire *)
ReplayOver(c) ==
  connected[c] /\ rh[CurSock(c)].pc = "done" /\ wire[c] = <<>>

(* C1: after N appends, a replay from the id of the k-th entry (null: k =  *)
(* 0) delivers exactly the entries k+1..N, in append order, however many   *)
(* they are.                                                               *)
C1_ReplayComplete ==
  \A c \in Participants :
    ReplayOver(c) =>
      LET k == XReadStart(rh[CurSock(c)].from)
          n == Len(questions)
      IN ReplayedIds(c) = [i \in 1..(n - k) |-> k + i]

(* C2: a consumer that connects with cursor k while the log holds entries  *)
(* after k has received them by replay, in increasing order of id, before  *)
(* it receives a live event on that connection: when a live event reaches  *)
(* it, every such entry older than that event has been replayed to it.     *)
C2_ReplayBeforeLive ==
  \A c \in Participants : \A i \in 1..Len(rcvd[c]) :
    rcvd[c][i].via = "live" =>
      LET s == <<c, rcvd[c][i].sock>>
          k == XReadStart(rh[s].from)
          before == SelectSeq(SubSeq(rcvd[c], 1, i - 1),
                              LAMBDA r : r.sock = s[2] /\ r.via = "replay")
      IN /\ \A id \in (k + 1)..rh[s].logLen :
              id < rcvd[c][i].id => \E j \in 1..Len(before) : before[j].id = id
         /\ \A a, b \in 1..Len(before) : a < b => before[a].id < before[b].id

AppendInProgress == \E h \in 1..Len(hs) : hs[h].pc \in {"xaddQ", "publish"}

(* C3: whenever a consumer is connected, its replay is over and no append  *)
(* is in progress, every entry of the log after the cursor it first        *)
(* connected with (null) has been delivered to it at least once.           *)
C3_Gapless ==
  \A c \in Participants :
    (ReplayOver(c) /\ ~AppendInProgress) =>
      \A e \in Range(questions) :
        e.id > XReadStart(Null) => \E i \in 1..Len(rcvd[c]) : rcvd[c][i].id = e.id

(* C4: at most one utterance is being rendered at any time. *)
C4_OneRender == \A c \in Participants : Len(rendering[c]) <= 1

(* an item waits in the queue while another is being rendered *)
C4_Witness ==
  \E c \in Participants : Len(rendering[c]) = 1 /\ speakQueue[c] # <<>>

(* the texts enqueued by speak, in order: one per message received *)
Enqueued(c) == [i \in 1..Len(messages[c]) |-> messages[c][i].text]

(* C5: the items rendered so far, followed by the items still queued, are  *)
(* the items enqueued, in the order of enqueueing: none is skipped,        *)
(* repeated or overtaken.                                                  *)
C5_Fifo == \A c \in Participants : spoken[c] \o speakQueue[c] = Enqueued(c)

(* three items, got by replay and live, the last two of them different,    *)
(* have all been rendered                                                  *)
C5_Witness ==
  \E c \in Participants :
    /\ Len(spoken[c]) >= 3 /\ speakQueue[c] = <<>>
    /\ spoken[c][2] # spoken[c][3]
    /\ \E i, j \in 1..Len(rcvd[c]) : rcvd[c][i].via = "replay" /\ rcvd[c][j].via = "live"

(* an upper bound on the messages one Participant receives in Spec: each   *)
(* entry live, and once per replay                                         *)
MaxHeard == MaxSubs * (1 + MaxConn)

(* C6: the scheduler is never idle while the queue is non-empty; a render  *)
(* that ends or fails is followed at once by the render of the next queued *)
(* item, or by the idle state if none is queued; and, renders ending or    *)
(* failing, every item enqueued is eventually rendered.                    *)
C6_Progress ==
  /\ [](\A c \in Participants :
          /\ speakQueue[c] # <<>> => isSpeaking[c]
          /\ isSpeaking[c] <=> rendering[c] # <<>>)
  /\ [][\A c \in Participants :
          ((RenderEnd(c) \/ RenderError(c)) /\ speakQueue[c] = <<>>
             => ~isSpeaking'[c] /\ rendering'[c] = <<>>)
          /\ ((RenderEnd(c) \/ RenderError(c)) /\ speakQueue[c] # <<>>
             => isSpeaking'[c] /\ rendering'[c] = <<Head(speakQueue[c])>>
                /\ speakQueue'[c] = Tail(speakQueue[c]))]_vars
  /\ \A c \in Participants : \A n \in 1..MaxHeard :
        (Len(messages[c]) >= n) ~> (Len(spoken[c]) >= n)

(* two items were rendered one after the other and the scheduler is idle *)
C6_Witness ==
  \E c \in Participants :
    Len(spoken[c]) >= 2 /\ ~isSpeaking[c] /\ speakQueue[c] = <<>> /\ rendering[c] = <<>>

(* C7: of two submissions that were both appended to questions:stream, the *)
(* one the server received first has the smaller id, also when the second  *)
(* arrived while the first was waiting for OpenAI.                         *)
C7_SubmissionOrder ==
  \A a, b \in 1..Len(hs) :
    (a < b /\ hs[a].streamId # Null /\ hs[b].streamId # Null)
      => hs[a].streamId < hs[b].streamId

(* the ids of the live events in s, in order *)
LiveIds(s) ==
  LET live == SelectSeq(s, LAMBDA r : r.via = "live")
  IN [i \in 1..Len(live) |-> live[i].id]

Increasing(ids) == \A i, j \in 1..Len(ids) : i < j => ids[i] < ids[j]

InLog(id, text) == \E e \in Range(questions) : e.id = id /\ e.text = text

(* C8: live events are published and emitted in the order of their ids,    *)
(* and each carries the id and text of an entry already in the log.        *)
C8_LiveOrder ==
  /\ Increasing([i \in 1..Len(pubsub) |-> pubsub[i].streamId])
  /\ \A i \in 1..Len(pubsub) : InLog(pubsub[i].streamId, pubsub[i].text)
  /\ \A c \in Clients :
       /\ Increasing(LiveIds(rcvd[c]))
       /\ \A i \in 1..Len(rcvd[c]) :
            rcvd[c][i].via = "live" => InLog(rcvd[c][i].id, rcvd[c][i].text)
       /\ \A i \in 1..Len(wire[c]) :
            wire[c][i].via = "live" => InLog(wire[c][i].streamId, wire[c][i].text)

(* two submissions were in flight together, the later one was appended     *)
(* first, and both were published                                          *)
C8_Witness ==
  /\ Len(hs) = 2 /\ Len(pubsub) = 2
  /\ hs[1].streamId = 2 /\ hs[2].streamId = 1

(* the submissions of socket s that passed validation, up to handler h *)
Arrived(s, h) == {j \in 1..h : hs[j].sock = s
                               /\ hs[j].out \notin {"EmptyInput", "TooManyItems", "TooManyCharacters"}}

(* the handler whose INCR created the key rate:<s> that handler h counted in *)
KeyMaker(s, h) ==
  LET ones == {j \in 1..h : hs[j].sock = s /\ hs[j].count = 1}
  IN CHOOSE j \in ones : \A i \in ones : i <= j

Reached(pcs, outs) ==
  Cardinality({h \in 1..Len(hs) : hs[h].pc \in pcs \/ hs[h].out \in outs})

(* C9: of the submissions of one socket that pass validation, counted in   *)
(* order of arrival whatever becomes of them, those that arrive within 60  *)
(* seconds of the first of a window (the one that found no rate key) are   *)
(* rate-limited exactly from the 11th on; and a rate-limited submission    *)
(* reaches neither OpenAI nor a stream nor a client.                       *)
C9_RateLimit ==
  /\ \A h \in 1..Len(hs) :
       LET s == hs[h].sock
           first == KeyMaker(s, h)
           n == Cardinality({j \in Arrived(s, h) : j >= first})
       IN (hs[h].count > 0 /\ hs[h].at - hs[first].at <= RateWindow)
            => /\ hs[h].count = n
               /\ hs[h].pc # "expire"
                    => (hs[h].out = "RateLimited" <=> n > RateLimit)
  /\ \A h \in 1..Len(hs) :
       hs[h].out = "RateLimited"
         => hs[h].pc = "done" /\ hs[h].aiText = "" /\ hs[h].streamId = Null
  /\ Len(followups) = Reached({"openai", "xaddQ", "publish"}, {"Done", "Failed"})
  /\ Len(questions) = Reached({"publish"}, {"Done"})
  /\ \A c \in Reviewers : Len(rcvd[c]) = Reached({}, {"Done", "Failed"})

(* the 11th submission within a minute was rejected *)
C9_Witness ==
  \E h \in 1..Len(hs) :
    /\ hs[h].out = "RateLimited" /\ hs[h].count = RateLimit + 1
    /\ hs[h].at - hs[1].at <= RateWindow

RECURSIVE WindowOpener(_)
(* the handler that opened the fixed window handler h falls in: the first  *)
(* submission of the socket, or the first one that came more than 60       *)
(* seconds after the opener of the window before                           *)
WindowOpener(h) ==
  LET before == {j \in 1..(h - 1) : hs[j].sock = hs[h].sock /\ hs[j].count > 0}
  IN IF before = {} THEN h
     ELSE LET p == CHOOSE j \in before : \A i \in before : i <= j
              o == WindowOpener(p)
          IN IF hs[h].at > hs[o].at + RateWindow THEN h ELSE o

(* C10: the expiry of a rate key is that of the first submission of its    *)
(* window, 60 seconds after it arrived, and later submissions do not move  *)
(* it; so a submission that arrives more than 60 seconds after the first   *)
(* of its window opens a new window with count 1 and is not rate-limited.  *)
C10_FixedWindow ==
  /\ \A s \in SockIds :
       (RateKey(s).count > 0 /\ RateKey(s).expiry # NoTTL)
         => RateKey(s).expiry = hs[KeyMaker(s, Len(hs))].at + RateWindow
  /\ \A h \in 1..Len(hs) :
       (hs[h].count > 0 /\ WindowOpener(h) = h)
         => hs[h].count = 1 /\ hs[h].out # "RateLimited"

(* the outcomes of the shape checks other than "ok" *)
ShapeRejects == {"EmptyInput", "TooManyItems", "TooManyCharacters"}

(* handler h got through the shape and rate checks and its redis.get was   *)
(* answered                                                                *)
PastRate(h) ==
  /\ hs[h].out \notin ShapeRejects \cup {"RateLimited"}
  /\ hs[h].pc \notin {"incr", "expire", "get"}

(* h was accepted by the admission checks *)
Accepted(h) ==
  PastRate(h) /\ hs[h].out # "Duplicate" /\ hs[h].pc # "set"

(* the submissions of h's items that arrived before h *)
Earlier(h) == {g \in 1..(h - 1) : hs[g].items = hs[h].items}

(* C11: a submission that passes the shape and rate checks and arrives     *)
(* after a submission of the same items was accepted, and at most 300      *)
(* seconds after it, is rejected as Duplicate, with no call to OpenAI and  *)
(* no stream entry; one that arrives more than 300 seconds after the last  *)
(* accepted one (and with no other at the same moment) is accepted and     *)
(* sets a mark that expires 300 seconds after; every mark expires 300      *)
(* seconds after the arrival of an accepted submission, so duplicates      *)
(* extend none.                                                            *)
C11_Dedupe ==
  /\ \A h \in 1..Len(hs) :
       PastRate(h) =>
         /\ (\E g \in Earlier(h) :
               Accepted(g) /\ hs[g].at < hs[h].at /\ hs[h].at <= hs[g].at + 300)
              => /\ hs[h].out = "Duplicate" /\ hs[h].pc = "done"
                 /\ hs[h].calls = 0 /\ hs[h].streamId = Null
         /\ (\A g \in Earlier(h) :
               hs[g].at # hs[h].at /\ (Accepted(g) => hs[h].at > hs[g].at + 300))
              => hs[h].out # "Duplicate"
         /\ hs[h].pc = "xaddF" => dedup[ItemsHash(hs[h].items)] = hs[h].at + 300
  /\ \A k \in DedupKeys :
       dedup[k] # Gone =>
         \E h \in 1..Len(hs) : /\ ItemsHash(hs[h].items) = k /\ Accepted(h)
                                /\ dedup[k] = hs[h].at + 300
  /\ Len(followups) = Cardinality({h \in 1..Len(hs) : Accepted(h) /\ hs[h].pc # "xaddF"})

(* a submission was accepted, the same items were rejected 300 seconds     *)
(* later, and accepted again after the mark, not extended, had expired     *)
C11_Witness ==
  \E a, b, c \in 1..Len(hs) :
    /\ hs[a].items = hs[b].items /\ hs[b].items = hs[c].items
    /\ hs[a].at = 0 /\ Accepted(a)
    /\ hs[b].at = 300 /\ hs[b].out = "Duplicate"
    /\ hs[c].at > 300 /\ hs[c].at <= 600 /\ Accepted(c)
    /\ hs[c].pc # "xaddF"

(* C12: of the submissions of one item list that arrive within 300 seconds *)
(* of each other, at most one is accepted, also when their admission       *)
(* checks overlap (one arrives while another is between its redis.get and  *)
(* the answer to its redis.set).                                           *)
C12_OneAccepted ==
  \A a, b \in 1..Len(hs) :
    (a < b /\ hs[a].items = hs[b].items /\ hs[b].at - hs[a].at <= 300)
      => ~(Accepted(a) /\ Accepted(b))

(* C13: a submission is rejected with EmptyInput iff its items are absent  *)
(* or none, else with TooManyItems iff they are more than 8, else with     *)
(* TooManyCharacters iff their lengths add up to more than 300; with 1..8  *)
(* items of at most 300 characters in all it passes the shape checks.      *)
C13_Shape ==
  \A h \in 1..Len(hs) :
    LET n == Len(hs[h].items)
        chars == SumLen(hs[h].items)
        empty == ~hs[h].has \/ n = 0
    IN /\ hs[h].out = "EmptyInput" <=> empty
       /\ hs[h].out = "TooManyItems" <=> (~empty /\ n > 8)
       /\ hs[h].out = "TooManyCharacters" <=> (~empty /\ n <= 8 /\ chars > 300)
       /\ (hs[h].has /\ n \in 1..8 /\ chars <= 300) => hs[h].pc = "incr" \/ hs[h].count > 0

(* 8 items of 300 characters in all were let through, and 9 items of more  *)
(* than 300 characters were rejected for their number                      *)
C13_Witness ==
  \E a, b \in 1..Len(hs) :
    /\ Len(hs[a].items) = 8 /\ SumLen(hs[a].items) = 300 /\ hs[a].count > 0
    /\ Len(hs[b].items) = 9 /\ SumLen(hs[b].items) > 300 /\ hs[b].out = "TooManyItems"

(* handler h has a command waiting on the Redis connection *)
Pending(q, h) == \E i \in 1..Len(q) : q[i].h = h /\ q[i].op # "XREAD"

(* C14: the checks run in the order shape, rate, dedupe. A submission that *)
(* fails a shape check is never counted and sends Redis nothing: its       *)
(* arrival leaves every rate key and every dedup key as it was. A          *)
(* submission counted over the limit is rejected as RateLimited whatever   *)
(* its items, and its rejection leaves every dedup key as it was and ends  *)
(* the handler. A Duplicate was counted within the limit.                  *)
C14_Frame ==
  /\ [](\A h \in 1..Len(hs) :
          /\ ValidateData(hs[h].has, hs[h].items) # "ok"
               => /\ hs[h].out \in ShapeRejects /\ hs[h].pc = "done"
                  /\ hs[h].count = 0 /\ ~Pending(redisQ, h)
          /\ hs[h].out = "RateLimited"
               => hs[h].count > RateLimit /\ hs[h].pc = "done" /\ ~Pending(redisQ, h)
          /\ (hs[h].count > RateLimit /\ hs[h].pc # "expire") => hs[h].out = "RateLimited"
          /\ hs[h].out = "Duplicate" => hs[h].count \in 1..RateLimit)
  /\ [][\A h \in 1..Len(hs') :
          /\ (h > Len(hs) /\ hs'[h].out \in ShapeRejects)
               => rate' = rate /\ dedup' = dedup /\ redisQ' = redisQ
          /\ (h <= Len(hs) /\ hs[h].out # "RateLimited" /\ hs'[h].out = "RateLimited")
               => dedup' = dedup]_vars

(* after the limit was reached a submission failed a shape check, and a    *)
(* submission of items never seen before was rejected as RateLimited       *)
C14_Witness ==
  \E a, b \in 1..Len(hs) :
    /\ hs[a].out \in ShapeRejects /\ rate[hs[a].sock].count >= RateLimit
    /\ hs[b].out = "RateLimited" /\ hs[b].items = ItemsB
    /\ dedup[ItemsHash(ItemsB)] = Gone

(* C15: OpenAI is called at most once for a submission, and only for one   *)
(* that was accepted: never for one rejected with EmptyInput,              *)
(* TooManyItems, TooManyCharacters, RateLimited or Duplicate.              *)
C15_CallAfterAdmit ==
  \A h \in 1..Len(hs) :
    /\ hs[h].calls <= 1
    /\ hs[h].out \in ShapeRejects \cup {"RateLimited", "Duplicate"}
         => hs[h].calls = 0 /\ hs[h].aiText = "" /\ hs[h].pc = "done"
    /\ hs[h].calls = 1 => Accepted(h)
    /\ hs[h].pc \in {"openai", "xaddQ", "publish"} => hs[h].calls = 1

(* a submission was rejected by a shape check, one by the rate limit, one  *)
(* as a duplicate, and an accepted submission was transformed              *)
C15_Witness ==
  /\ \E h \in 1..Len(hs) : hs[h].out \in ShapeRejects
  /\ \A o \in {"RateLimited", "Duplicate"} : \E h \in 1..Len(hs) : hs[h].out = o
  /\ \E h \in 1..Len(hs) : hs[h].out = "Done" /\ hs[h].calls = 1

(* every agent:questions packet sent to c so far that it has received or   *)
(* that is on its way                                                      *)
Sent(c) ==
  rcvd[c] \o [i \in 1..Len(wire[c]) |-> Seen(CurSock(c), wire[c][i])]

(* the call of handler h to OpenAI failed *)
TransformFailed(h) ==
  hs[h].out = "Failed" /\ hs[h].calls = 1 /\ hs[h].aiText = ""

(* C16: a submission whose call to OpenAI fails gets no id and no entry in *)
(* questions:stream: the failure leaves questions:stream and the messages  *)
(* published on questions:live as they were, and every packet that carries *)
(* an id carries the id and the text of an entry appended by a handler     *)
(* whose call to OpenAI succeeded.                                         *)
C16_FailureIsolation ==
  /\ [](/\ \A h \in 1..Len(hs) : TransformFailed(h) => hs[h].streamId = Null
        /\ \A e \in Range(questions) :
             \E h \in 1..Len(hs) : /\ hs[h].streamId = e.id /\ hs[h].aiText = e.text
                                    /\ e.text # "" /\ ~TransformFailed(h)
        /\ Len(questions) = Cardinality({h \in 1..Len(hs) : hs[h].streamId # Null})
        /\ \A i \in 1..Len(pubsub) : InLog(pubsub[i].streamId, pubsub[i].text)
        /\ \A c \in Clients : \A i \in 1..Len(Sent(c)) :
             Sent(c)[i].id # Null => InLog(Sent(c)[i].id, Sent(c)[i].text))
  /\ [][\A h \in 1..Len(hs) :
          (hs[h].pc = "openai" /\ hs'[h].out = "Failed")
            => questions' = questions /\ pubsub' = pubsub]_vars

(* one call to OpenAI failed and another submission was answered, logged   *)
(* and delivered                                                           *)
C16_Witness ==
  /\ \E h \in 1..Len(hs) : TransformFailed(h)
  /\ \E h \in 1..Len(hs) : hs[h].out = "Done"
  /\ Len(questions) = 1
  /\ \E c \in Participants : \E i \in 1..Len(rcvd[c]) : rcvd[c][i].id # Null

(* the notices in s *)
Notices(s) == SelectSeq(s, LAMBDA r : r.via = "notice")

C18_Terminates ==
  \A h \in 1..MaxFailSubs :
    (Len(hs) >= h /\ hs[h].pc = "openai") ~> (Len(hs) >= h /\ hs[h].pc = "done")

(* s is the beginning of t *)
Prefix(s, t) == Len(s) <= Len(t) /\ SubSeq(t, 1, Len(s)) = s

(* C19: in followups:stream and in questions:stream the ids are distinct   *)
(* and increase in the order of the appends, also when handlers append     *)
(* concurrently; a step of the program only adds entries at the end of a   *)
(* stream: no entry is removed or changed.                                 *)
C19_AppendOnly ==
  /\ [](/\ Increasing([i \in 1..Len(followups) |-> followups[i].id])
        /\ Increasing([i \in 1..Len(questions) |-> questions[i].id]))
  /\ [][Prefix(followups, followups') /\ Prefix(questions, questions')]_vars

(* two handlers in flight together have both appended to both streams, and *)
(* a Participant has read the stream back                                  *)
C19_Witness ==
  /\ Len(followups) = 2 /\ Len(questions) = 2
  /\ Len(hs) = 2 /\ hs[2].at = hs[1].at /\ hs[1].streamId > hs[2].streamId
  /\ \E c \in Participants : \E i \in 1..Len(rcvd[c]) : rcvd[c][i].via = "replay"

(* the live events for handler h among the packets sent to socket s *)
LiveFor(h, s) ==
  SelectSeq(Sent(s[1]), LAMBDA r : r.via = "live" /\ r.sock = s[2] /\ r.id = hs[h].streamId)

(* C20: a handler whose call to OpenAI succeeded and whose append was      *)
(* answered has exactly one entry in questions:stream, with its text, and  *)
(* no entry has another origin; when the handler is done, every socket     *)
(* that was open at the append and is still open has been sent exactly one *)
(* live event for it, with the text and the id of that entry, and no       *)
(* socket more than one.                                                   *)
C20_ExactlyOnce ==
  /\ \A h \in 1..Len(hs) :
       (hs[h].pc = "publish" \/ hs[h].out = "Done")
         => /\ hs[h].streamId # Null
            /\ Cardinality({i \in 1..Len(questions) :
                  questions[i].id = hs[h].streamId /\ questions[i].text = hs[h].aiText}) = 1
  /\ Len(questions) = Reached({"publish"}, {"Done"})
  /\ \A h \in 1..Len(hs) : \A s \in SockIds :
       hs[h].streamId # Null =>
         /\ Len(LiveFor(h, s)) <= 1
         /\ \A i \in 1..Len(LiveFor(h, s)) : LiveFor(h, s)[i].text = hs[h].aiText
         /\ (hs[h].out = "Done" /\ s \in hs[h].conn /\ IsOpen(s)) => Len(LiveFor(h, s)) = 1

(* two submissions were answered and logged while a Participant stayed     *)
(* connected, and it has received the live event of each                   *)
C20_Witness ==
  /\ Len(hs) = 2 /\ hs[1].out = "Done" /\ hs[2].out = "Done"
  /\ \E c \in Participants :
       /\ CurSock(c) \in hs[1].conn \cap hs[2].conn /\ IsOpen(CurSock(c))
       /\ wire[c] = <<>>
       /\ Len(LiveFor(1, CurSock(c))) = 1 /\ Len(LiveFor(2, CurSock(c))) = 1

(* C21: an append to a log that fails is tried again: the first error      *)
(* answer to a handler's XADD leaves the submission alive, with the XADD   *)
(* sent once more, and not Failed.                                         *)
C21_AppendRetried ==
  [][\A h \in 1..Len(hs) :
       (hs[h].pc \in {"xaddF", "xaddQ"} /\ hs[h].errs = 0 /\ hs'[h].errs = 1)
         => (hs'[h].out # "Failed" /\ Pending(redisQ', h))]_vars

(* C22: an agent:questions event carries an id exactly when it is a live   *)
(* or a replayed question, and then its id and text are those of an entry  *)
(* of questions:stream; an event is emitted with an id only once that      *)
(* entry is in the log; every failure notice is without an id.             *)
C22_IdIffAppended ==
  /\ [](\A c \in Clients : \A i \in 1..Len(Sent(c)) :
          LET r == Sent(c)[i] IN
            /\ r.id # Null <=> r.via \in {"live", "replay"}
            /\ r.id # Null => InLog(r.id, r.text)
            /\ r.via = "notice" => r.id = Null /\ r.text = Apology)
  /\ [][\A c \in Clients : \A i \in 1..Len(wire'[c]) :
          (Len(wire'[c]) > Len(wire[c]) /\ i > Len(wire[c])
             /\ wire'[c][i].streamId # Null)
            => \E e \in Range(questions) :
                 e.id = wire'[c][i].streamId /\ e.text = wire'[c][i].text]_vars

(* a Participant got one question live and one by replay, each with its    *)
(* id, and a Reviewer got a failure notice                                 *)
C22_Witness ==
  /\ \E c \in Participants :
       /\ \E i \in 1..Len(rcvd[c]) : rcvd[c][i].via = "live" /\ rcvd[c][i].id # Null
       /\ \E i \in 1..Len(rcvd[c]) : rcvd[c][i].via = "replay" /\ rcvd[c][i].id # Null
  /\ \E c \in Reviewers : \E i \in 1..Len(rcvd[c]) :
       rcvd[c][i].via = "notice" /\ rcvd[c][i].id = Null

(* C23: when a call to OpenAI fails, the apology is sent to every          *)
(* connected client, the Participants included, not only to the socket     *)
(* that submitted.                                                         *)
C23_NoticeToAll ==
  [][\A h \in 1..Len(hs) :
       (hs[h].pc = "openai" /\ hs'[h].out = "Failed")
         => /\ \A c \in Participants : connected[c] =>
                 /\ Len(wire'[c]) = Len(wire[c]) + 1
                 /\ wire'[c][Len(wire'[c])].via = "notice"
            /\ \A c \in Reviewers : connected[c] =>
                 /\ Len(rcvd'[c]) = Len(rcvd[c]) + 1
                 /\ rcvd'[c][Len(rcvd'[c])].via = "notice"]_vars

(* C24: lastStreamId of a client changes only when that client receives an *)
(* agent:questions event that carries an id, and it becomes that id; an    *)
(* event without an id, a connect, a disconnect, the replay request and    *)
(* every step of the server or of another client leave it as it was.       *)
C24_CursorFrame ==
  [][\A c \in Participants :
       LET got == Len(rcvd'[c]) = Len(rcvd[c]) + 1
           m == Head(wire[c])
       IN /\ lastStreamId'[c] # lastStreamId[c]
               => /\ connected[c] /\ wire[c] # <<>> /\ got
                  /\ m.streamId # Null
                  /\ lastStreamId'[c] = m.streamId
          /\ (connected[c] /\ wire[c] # <<>> /\ got)
               => lastStreamId'[c] = IF m.streamId # Null THEN m.streamId
                                                        ELSE lastStreamId[c]]_vars

(* a client that had received a question with an id received a failure     *)
(* notice after it, on its second socket, and its cursor is still that id  *)
C24_Witness ==
  \E c \in Participants : \E i, j \in 1..Len(rcvd[c]) :
    /\ i < j /\ j = Len(rcvd[c])
    /\ rcvd[c][i].id # Null /\ lastStreamId[c] = rcvd[c][i].id
    /\ rcvd[c][j].via = "notice"
    /\ sock[c] = 2

(* C25: once a handler's answer is appended to questions:stream, a failure *)
(* of the publish on questions:live does not fail the submission: the      *)
(* entry stays in the log and the handler does not end as Failed, so no    *)
(* apology is sent for it.                                                 *)
C25_PublishNonFatal ==
  \A h \in 1..Len(hs) :
    hs[h].streamId # Null
      => /\ InLog(hs[h].streamId, hs[h].aiText)
         /\ hs[h].out # "Failed"

(* messages i and j of c carry the same id: one entry delivered twice *)
Twice(c, i, j) ==
  /\ i < j
  /\ messages[c][i].streamId # Null
  /\ messages[c][i].streamId = messages[c][j].streamId

(* C26: when an entry has been delivered twice to a client (by replay and  *)
(* live), the scheduler is not stuck: a queued item always has a render in *)
(* progress before it, one at most; and the second copy and every item     *)
(* received after it are rendered or queued once each, in the order of     *)
(* arrival.                                                                *)
C26_DuplicateTolerated ==
  \A c \in Participants : \A i, j \in 1..Len(messages[c]) :
    Twice(c, i, j)
      => /\ speakQueue[c] # <<>> => Len(rendering[c]) = 1
         /\ isSpeaking[c] <=> rendering[c] # <<>>
         /\ Len(spoken[c] \o speakQueue[c]) = Len(messages[c])
         /\ \A k \in j..Len(messages[c]) :
              (spoken[c] \o speakQueue[c])[k] = messages[c][k].text

(* an entry came twice, by replay and live, a different entry came after   *)
(* the second copy, and all of them have been rendered                     *)
C26_Witness ==
  \E c \in Participants : \E i, j, k \in 1..Len(messages[c]) :
    /\ Twice(c, i, j) /\ j < k
    /\ messages[c][k].streamId # messages[c][j].streamId
    /\ {rcvd[c][i].via, rcvd[c][j].via} = {"replay", "live"}
    /\ Len(spoken[c]) = Len(messages[c])
    /\ speakQueue[c] = <<>> /\ rendering[c] = <<>>

(* handler h ended at one of the admission checks *)
Rejected(h) == hs[h].out \in ShapeRejects \cup {"RateLimited", "Duplicate"}

(* C27: a submission rejected by a shape check, the rate limit or the      *)
(* dedupe check is dropped in silence and for good: the step that rejects  *)
(* it sends no packet to any socket and appends nothing to either stream   *)
(* nor to questions:live; its handler has ended, has no command pending,   *)
(* made no call to OpenAI and is never resumed; and every packet, stream   *)
(* entry and published message there is belongs to a submission that was   *)
(* not rejected.                                                           *)
C27_SilentReject ==
  /\ [](/\ \A h \in 1..Len(hs) :
             Rejected(h) => /\ hs[h].pc = "done" /\ ~Pending(redisQ, h)
                            /\ hs[h].calls = 0 /\ hs[h].streamId = Null
        /\ Len(followups) = Cardinality({h \in 1..Len(hs) : hs[h].calls = 1})
        /\ Len(questions) = Cardinality({h \in 1..Len(hs) : hs[h].streamId # Null})
        /\ Len(pubsub) = Cardinality({h \in 1..Len(hs) : hs[h].out = "Done"})
        /\ \A c \in Clients :
             Len(Sent(c)) <= Cardinality({h \in 1..Len(hs) : hs[h].out \in {"Done", "Failed"}}))
  /\ [][\A h \in 1..Len(hs') :
          /\ (Rejected(h)' /\ (h > Len(hs) \/ ~Rejected(h)))
               => /\ wire' = wire /\ rcvd' = rcvd
                  /\ followups' = followups /\ questions' = questions
                  /\ pubsub' = pubsub
          /\ (h <= Len(hs) /\ Rejected(h)) => hs'[h] = hs[h]]_vars

(* submissions were rejected by a shape check, by the rate limit and as a  *)
(* duplicate, and the Reviewer's socket was sent only the questions of the *)
(* submissions that were answered                                          *)
C27_Witness ==
  /\ \A o \in {"RateLimited", "Duplicate"} : \E h \in 1..Len(hs) : hs[h].out = o
  /\ \E h \in 1..Len(hs) : hs[h].out \in ShapeRejects
  /\ \E c \in Reviewers :
       /\ rcvd[c] # <<>>
       /\ Len(rcvd[c]) = Cardinality({h \in 1..Len(hs) : hs[h].out = "Done"})

(* C28: GET /health answers ok = true whenever the server answers, and the *)
(* answer given while Redis can be reached differs from the answer given   *)
(* while it cannot.                                                        *)
C28_HealthTellsStore ==
  \A i, j \in 1..Len(health) :
    /\ health[i].body.ok = TRUE
    /\ health[i].open # health[j].open => health[i].body # health[j].body

(* C29: lastStreamId of a client never moves to a smaller id: a replayed   *)
(* entry that arrives after a live event with a larger id does not move it *)
(* back.                                                                   *)
C29_CursorMonotone ==
  [][\A c \in Participants : lastStreamId'[c] >= lastStreamId[c]]_vars

(* h was admitted and stored, and failed at OpenAI or after it *)
AdmittedFailed(h) == hs[h].out = "Failed" /\ hs[h].calls = 1

(* C30: a failure does not take back a submission's admission. The step at *)
(* which an admitted submission fails leaves every rate key and every      *)
(* dedup key as they were; the dedup key of a failed submission stands for *)
(* the 300 s after its arrival; and a submission of the same items that    *)
(* arrives later, within those 300 s, never gets past the dedupe check:    *)
(* it ends as Duplicate unless one of its own Redis commands failed.       *)
C30_NoRollback ==
  /\ [](\A h \in 1..Len(hs) :
          AdmittedFailed(h)
            => /\ now < hs[h].at + DedupTTL => DedupExists(ItemsHash(hs[h].items))
               /\ \A g \in (h + 1)..Len(hs) :
                    (/\ hs[g].items = hs[h].items
                     /\ hs[g].at > hs[h].at /\ hs[g].at < hs[h].at + DedupTTL)
                      => /\ hs[g].calls = 0
                         /\ hs[g].pc \in {"incr", "expire", "get", "done"}
                         /\ (PastRate(g) /\ hs[g].errs = 0) => hs[g].out = "Duplicate")
  /\ [][\A h \in 1..Len(hs) :
          (hs[h].pc \in {"xaddF", "openai", "xaddQ", "publish"}
             /\ hs'[h].out = "Failed")
            => rate' = rate /\ dedup' = dedup]_vars

(* one submission failed at OpenAI and one at the append of its answer;    *)
(* the same items, submitted again some minutes after the first of them,   *)
(* were rejected as Duplicate                                              *)
C30_Witness ==
  \E h, g \in 1..Len(hs) :
    /\ TransformFailed(h)
    /\ hs[g].items = hs[h].items /\ hs[g].at = hs[h].at + LongStep
    /\ hs[g].out = "Duplicate"
    /\ \E f \in 1..Len(hs) : AdmittedFailed(f) /\ hs[f].aiText # ""

(* C31: the rate counters are kept per socket and the dedup keys per item  *)
(* list alone. A rate key changes only at the INCR or EXPIRE of a handler  *)
(* of its own socket, and a handler's count never exceeds the submissions  *)
(* of its own socket, so a socket is RateLimited only by what it sent      *)
(* itself. A submission of the list that another socket had accepted less  *)
(* than 300 s earlier ends as Duplicate; and a submission ends as          *)
(* Duplicate only if that very list, items in that order, was accepted     *)
(* before it: the same items in another order are not a duplicate.         *)
C31_KeyScope ==
  /\ [](\A h \in 1..Len(hs) :
          /\ hs[h].count <= Cardinality(Arrived(hs[h].sock, h))
          /\ hs[h].out = "RateLimited"
               => Cardinality(Arrived(hs[h].sock, h)) > RateLimit
          /\ \A g \in 1..(h - 1) :
               (/\ hs[g].sock # hs[h].sock /\ hs[g].items = hs[h].items
                /\ Accepted(g) /\ PastRate(h)
                /\ hs[g].at < hs[h].at /\ hs[h].at < hs[g].at + DedupTTL)
                 => hs[h].out = "Duplicate"
          /\ hs[h].out = "Duplicate"
               => \E g \in 1..(h - 1) :
                    /\ hs[g].items = hs[h].items /\ Accepted(g)
                    /\ hs[g].at <= hs[h].at /\ hs[h].at <= hs[g].at + DedupTTL)
  /\ [][\A s \in SockIds :
          rate'[s] # rate[s]
            => /\ redisQ # <<>> /\ Head(redisQ).sock = s
               /\ Head(redisQ).op \in {"INCR", "EXPIRE"}]_vars

(* the Reviewer's socket was RateLimited while a submission of the other   *)
(* socket, sent after it, was counted as that socket's first; the other    *)
(* socket's submission of the list the Reviewer had accepted minutes       *)
(* before was rejected as Duplicate, and its submission of the same items  *)
(* in another order was accepted while that mark stood                     *)
C31_Witness ==
  /\ \E a \in 1..Len(hs) :
       /\ hs[a].sock[1] \in Reviewers /\ hs[a].out = "RateLimited"
       /\ \E b \in (a + 1)..Len(hs) :
            hs[b].sock # hs[a].sock /\ hs[b].at = hs[a].at /\ hs[b].count = 1
  /\ \E c \in 1..Len(hs) :
       /\ hs[c].sock[1] \in Reviewers /\ hs[c].items = ItemsA /\ Accepted(c)
       /\ \E d \in 1..Len(hs) :
            /\ hs[d].sock # hs[c].sock /\ hs[d].items = ItemsA
            /\ hs[d].at > hs[c].at /\ hs[d].out = "Duplicate"
       /\ \E e \in 1..Len(hs) :
            /\ hs[e].items = ItemsAShuffled /\ Accepted(e) /\ hs[e].pc = "openai"
            /\ hs[e].at < hs[c].at + DedupTTL

(* the handlers that have called OpenAI, in order of arrival *)
Callers == SelectSeq([h \in 1..Len(hs) |-> h], LAMBDA h : hs[h].calls = 1)

====
